---- MODULE Spec2Model ----
(***************************************************************************)
(* Model of the ProductManager import pipeline:                            *)
(*   utils/productValidation.ts  (validateProduct, validateProducts,       *)
(*                                canSyncToDatabase)                       *)
(*   pages/ImportPage.tsx        (upload, validate, dialogs, confirmed     *)
(*                                sync)                                    *)
(*   contexts/ProductContext.tsx (addProduct, updateProduct)               *)
(*                                                                         *)
(* A JavaScript string is a sequence of tokens.  Identifiers and names are *)
(* written one character per token so that String.prototype.trim can be    *)
(* computed; fixed message texts are single tokens.  The value `undefined` *)
(* is the one-token sequence <<"undefined">>, which is also what a         *)
(* template literal prints for it.                                         *)
(***************************************************************************)
EXTENDS Integers, Sequences, FiniteSets, TLC

VARIABLES
    \* ---- inputs and result of one validateProducts call (SpecV, SpecG)
    importData,          \* ProductSKU[] handed to validateProducts
    existingProducts,    \* ProductSKU[] catalog snapshot handed to validateProducts
    summary,             \* ValidationSummary returned (NoSummary before the call)
    canSync,             \* result of canSyncToDatabase ("unset" before the call)
    pc,                  \* position of the pure-function harness
    fileText,            \* header cells and data lines of a file given to the upload parser
    csvContent,          \* string returned by exportValidationResults
    \* ---- contexts/ProductContext.tsx
    products,            \* useState<ProductSKU[]>
    error,               \* useState<string | null>, set by the catch blocks of the store functions
    clock,               \* Date.now(), as a tick counter
    isOffline,           \* useState(!navigator.onLine)
    offlineActions,      \* useState<OfflineAction[]>([])
    persistedActions,    \* localForage item 'offlineActions'
    cachedProducts,      \* localForage item 'products'
    closure,             \* the provider's render whose store functions the running caller holds
    calls,               \* store calls made from the product pages so far
    \* ---- pages/ImportPage.tsx
    importedFiles,
    showValidationPopup,
    showValidationSummary,
    showMissingProductsDialog,
    showErrorLogTable,
    showConfirmationDialog,
    currentValidationData,
    currentFileId,
    isProcessing,
    uploadToast,         \* the toast the latest handleFileUpload call showed
    updateTimers,        \* ids of the files whose setTimeout of handleUpdateProducts is pending
    \* ---- the running handleConfirmSync call
    syncPc,              \* "idle", or "loop" while the call is suspended in its for-loop
    syncIdx,             \* position in the loop of the next row to look at
    syncData,            \* currentValidationData / currentFileId captured by the latest call
    syncCalls,           \* store calls issued by the latest call, in order
    syncFailed,          \* rowIndex of the rows whose store call of the latest sync failed
    \* ---- components/MissingProductsDialog, while it is mounted
    selectedAction,      \* useState<MissingProductAction>('show')
    confirmThrew         \* the dialog's handleConfirm ended in an uncaught TypeError

valVars == <<importData, existingProducts, summary, canSync, pc, fileText, csvContent>>

storeVars == <<products, clock>>

dialogVars ==
    <<showValidationPopup, showValidationSummary, showMissingProductsDialog,
      showErrorLogTable, showConfirmationDialog>>

pageVars == <<importedFiles, currentValidationData, currentFileId, isProcessing>>

syncVars == <<syncPc, syncIdx, syncData, syncCalls>>

failVars == <<error, syncFailed>>

missingVars == <<selectedAction, confirmThrew>>

offlineVars == <<isOffline, offlineActions, persistedActions, cachedProducts, closure, calls>>

tableVars == <<uploadToast, updateTimers>>

workVars ==
    <<storeVars, dialogVars, pageVars, syncVars, failVars, missingVars, offlineVars, tableVars>>

vars == <<valVars, workVars>>

-----------------------------------------------------------------------------
(* Bounds *)
MaxBatch == 2
MaxCat == 2
MaxGateRows == 3
MaxUploads == 2
\* files uploaded in the file-table specification SpecF
MaxTableUploads == 1
MaxLines == 2
\* store calls made in the store specification SpecS
MaxCalls == 3

-----------------------------------------------------------------------------
(* Strings *)
Undefined == <<"undefined">>

Whitespace == {" ", "\t", "\n"}

RECURSIVE TrimStart(_)
TrimStart(s) ==
    IF s # <<>> /\ Head(s) \in Whitespace THEN TrimStart(Tail(s)) ELSE s

RECURSIVE TrimEnd(_)
TrimEnd(s) ==
    IF s # <<>> /\ s[Len(s)] \in Whitespace
    THEN TrimEnd(SubSeq(s, 1, Len(s) - 1))
    ELSE s

Trim(s) == TrimEnd(TrimStart(s))

\* !x?.trim() : x is undefined, or empty after trimming
BlankAfterTrim(x) == x = Undefined \/ Trim(x) = <<>>

-----------------------------------------------------------------------------
(* Types *)
ValidationStatus == {"accepted", "error", "warning"}
ImportAction == {"insert", "update", "skip"}
ProductStatus == {"active", "inactive", "hide", "deleted"}

NoSummary == [totalRows |-> -1]

-----------------------------------------------------------------------------
(* utils/productValidation.ts *)
ALLOWED_CURRENCIES_WithINR == << <<"R", "s">>, <<"E", "U", "R">>, <<"I", "N", "R">> >>

\* const ALLOWED_CURRENCIES = ['Rs', 'EUR']
ALLOWED_CURRENCIES == << <<"R", "s">>, <<"E", "U", "R">> >>

Includes(list, x) == \E i \in 1..Len(list) : list[i] = x

RECURSIVE Join(_, _)
Join(list, sep) ==
    IF list = <<>> THEN <<>>
    ELSE IF Len(list) = 1 THEN list[1]
    ELSE list[1] \o sep \o Join(Tail(list), sep)

MsgMrp == <<"MRP must be greater than or equal to 0">>
MsgCurrency == <<"Currency must be one of: ">> \o Join(ALLOWED_CURRENCIES, <<", ">>)
MsgDuplicate(product) ==
    <<"Duplicate entry: (">> \o product.pricelist_id \o <<", ">>
        \o product.business_product_id
        \o <<") appears multiple times in import file">>
MsgBusinessId == <<"Business Product ID is required">>
MsgPricelist == <<"Pricelist ID is required">>
MsgName == <<"Product Name is required">>

ExistingProductFound_ById(product, existing) ==
    \E k \in 1..Len(existing) : existing[k].id = product.business_product_id

\* existingProducts.find(p => p.business_product_id === product.business_product_id)
ExistingProductFound(product, existing) ==
    \E k \in 1..Len(existing) :
        existing[k].business_product_id = product.business_product_id

HasDuplicates_EarlierOnly(product, rowIndex, data) ==
    \E i \in 1..Len(data) :
        /\ i - 1 < rowIndex
        /\ data[i].pricelist_id = product.pricelist_id
        /\ data[i].business_product_id = product.business_product_id

\* importData.filter((p, index) => index !== rowIndex && ...).length > 0
\* rowIndex is 0-based; position i of a TLA+ sequence is index i - 1.
HasDuplicates(product, rowIndex, data) ==
    \E i \in 1..Len(data) :
        /\ i - 1 # rowIndex
        /\ data[i].pricelist_id = product.pricelist_id
        /\ data[i].business_product_id = product.business_product_id

MrpBelowZero_OrZero(product) == product.product_mrp <= 0

\* product.product_mrp < 0
MrpBelowZero(product) == product.product_mrp < 0

RowErrors_FirstOnly(product, rowIndex, data) ==
    IF MrpBelowZero(product) THEN <<MsgMrp>>
    ELSE IF ~Includes(ALLOWED_CURRENCIES, product.currency) THEN <<MsgCurrency>>
    ELSE IF HasDuplicates(product, rowIndex, data) THEN <<MsgDuplicate(product)>>
    ELSE IF BlankAfterTrim(product.business_product_id) THEN <<MsgBusinessId>>
    ELSE IF BlankAfterTrim(product.pricelist_id) THEN <<MsgPricelist>>
    ELSE IF BlankAfterTrim(product.product_name) THEN <<MsgName>>
    ELSE <<>>

\* the errors array after all the pushes, in push order
RowErrors(product, rowIndex, data) ==
    (IF MrpBelowZero(product) THEN <<MsgMrp>> ELSE <<>>)
    \o (IF ~Includes(ALLOWED_CURRENCIES, product.currency) THEN <<MsgCurrency>> ELSE <<>>)
    \o (IF HasDuplicates(product, rowIndex, data) THEN <<MsgDuplicate(product)>> ELSE <<>>)
    \o (IF BlankAfterTrim(product.business_product_id) THEN <<MsgBusinessId>> ELSE <<>>)
    \o (IF BlankAfterTrim(product.pricelist_id) THEN <<MsgPricelist>> ELSE <<>>)
    \o (IF BlankAfterTrim(product.product_name) THEN <<MsgName>> ELSE <<>>)

RowWarnings_ZeroMrp(product, rowIndex, data) ==
    IF product.product_mrp = 0 THEN << <<"MRP is 0">> >> ELSE <<>>

\* no rule pushes to warnings
RowWarnings(product, rowIndex, data) == <<>>

\* let action = 'insert'; if (existingProduct) action = 'update'
TentativeAction(product, existing) ==
    IF ExistingProductFound(product, existing) THEN "update" ELSE "insert"

ResolveStatus_WarningsGE(errors, warnings) ==
    IF Len(errors) > 0 THEN "error"
    ELSE IF Len(warnings) >= 0 THEN "warning"
    ELSE "accepted"

\* if (errors.length > 0) status = 'error' else if (warnings.length > 0) status = 'warning'
ResolveStatus(errors, warnings) ==
    IF Len(errors) > 0 THEN "error"
    ELSE IF Len(warnings) > 0 THEN "warning"
    ELSE "accepted"

ResolveAction_KeepTentative(errors, tentative) == tentative

ResolveAction_SkipUpdates(errors, tentative) ==
    IF Len(errors) > 0 \/ tentative = "update" THEN "skip" ELSE tentative

\* if (errors.length > 0) action = 'skip'
ResolveAction(errors, tentative) ==
    IF Len(errors) > 0 THEN "skip" ELSE tentative

Remark_FirstMessage(status, action, errors, warnings) ==
    IF status = "error" THEN errors[1]
    ELSE IF status = "warning" THEN warnings[1]
    ELSE IF action = "update" THEN <<"Product will be updated">>
    ELSE <<"New product will be added">>

\* the remark: errors.join('; '), warnings.join('; ') or one of two fixed texts
Remark(status, action, errors, warnings) ==
    IF status = "error" THEN Join(errors, <<"; ">>)
    ELSE IF status = "warning" THEN Join(warnings, <<"; ">>)
    ELSE IF action = "update" THEN <<"Product will be updated">>
    ELSE <<"New product will be added">>

validateProduct(product, rowIndex, existing, data) ==
    LET errors == RowErrors(product, rowIndex, data)
        warnings == RowWarnings(product, rowIndex, data)
        status == ResolveStatus(errors, warnings)
        action == ResolveAction(errors, TentativeAction(product, existing))
        validation == [status |-> status, action |-> action, errors |-> errors,
                       warnings |-> warnings,
                       remark |-> Remark(status, action, errors, warnings)]
    IN  [validation |-> validation, rowIndex |-> rowIndex] @@ product

\* validatedProducts.filter(p => p.validation.status === s).length
CountStatus(validatedProducts, s) ==
    Cardinality({i \in 1..Len(validatedProducts) : validatedProducts[i].validation.status = s})

CountAction_AcceptedOnly(validatedProducts, a) ==
    Cardinality({i \in 1..Len(validatedProducts) :
                    /\ validatedProducts[i].validation.action = a
                    /\ validatedProducts[i].validation.status = "accepted"})

\* validatedProducts.filter(p => p.validation.action === a).length
CountAction(validatedProducts, a) ==
    Cardinality({i \in 1..Len(validatedProducts) : validatedProducts[i].validation.action = a})

MissingFilter_Or(p, importProductIds) ==
    p.product_status = "active" \/ p.business_product_id \notin importProductIds

MissingFilter_NoStatus(p, importProductIds) ==
    p.business_product_id \notin importProductIds

\* p => p.product_status === 'active' && !importProductIds.has(p.business_product_id)
MissingFilter(p, importProductIds) ==
    p.product_status = "active" /\ p.business_product_id \notin importProductIds

\* the statistics block and the returned object of validateProducts
Summarize(validatedProducts, missingProducts) ==
    [totalRows |-> Len(validatedProducts),
     acceptedRows |-> CountStatus(validatedProducts, "accepted"),
     errorRows |-> CountStatus(validatedProducts, "error"),
     warningRows |-> CountStatus(validatedProducts, "warning"),
     insertCount |-> CountAction(validatedProducts, "insert"),
     updateCount |-> CountAction(validatedProducts, "update"),
     skipCount |-> CountAction(validatedProducts, "skip"),
     missingProducts |-> missingProducts,
     validatedProducts |-> validatedProducts]

validateProducts_OneBased(data, existing) ==
    LET validatedProducts ==
            [i \in 1..Len(data) |-> validateProduct(data[i], i, existing, data)]
        importProductIds == {data[i].business_product_id : i \in 1..Len(data)}
        IsMissing(p) == MissingFilter(p, importProductIds)
    IN  Summarize(validatedProducts, SelectSeq(existing, IsMissing))

\* importData.map((product, index) => validateProduct(product, index, ...)), then the
\* missing products and the statistics
validateProducts(data, existing) ==
    LET validatedProducts ==
            [i \in 1..Len(data) |-> validateProduct(data[i], i - 1, existing, data)]
        importProductIds == {data[i].business_product_id : i \in 1..Len(data)}
        IsMissing(p) == MissingFilter(p, importProductIds)
    IN  Summarize(validatedProducts, SelectSeq(existing, IsMissing))

canSyncToDatabase_NoWarnings(s) == s.errorRows = 0 /\ s.warningRows = 0

canSyncToDatabase_NonEmpty(s) == s.errorRows = 0 /\ s.totalRows > 0

\* return summary.errorRows === 0
canSyncToDatabase(s) == s.errorRows = 0

DigitChar == <<"0", "1", "2", "3", "4", "5", "6", "7", "8", "9">>

\* `${n}` for an integer n
RECURSIVE NumToStr(_)
NumToStr(n) ==
    IF n < 0 THEN <<"-">> \o NumToStr(0 - n)
    ELSE IF n < 10 THEN <<DigitChar[n + 1]>>
    ELSE NumToStr(n \div 10) \o <<DigitChar[(n % 10) + 1]>>

ExportHeaders ==
    << <<"Row">>, <<"Status">>, <<"Action">>, <<"Business Product ID">>, <<"Pricelist ID">>,
       <<"Product Name">>, <<"MRP">>, <<"Currency">>, <<"Remark">> >>

ExportRowNumber_ZeroBased(product) == product.rowIndex

\* product.rowIndex + 1
ExportRowNumber(product) == product.rowIndex + 1

\* the cells of one row, each as the template literal prints it
ExportRow(product) ==
    << NumToStr(ExportRowNumber(product)),
       <<product.validation.status>>,
       <<product.validation.action>>,
       product.business_product_id,
       product.pricelist_id,
       product.product_name,
       NumToStr(product.product_mrp),
       product.currency,
       product.validation.remark >>

\* row.map(cell => `"${cell}"`).join(',')
CsvLine(row) ==
    Join([k \in 1..Len(row) |-> <<"\"">> \o row[k] \o <<"\"">>], <<",">>)

\* [headers, ...rows].map(...).join('\n')
exportValidationResults(validatedProducts) ==
    Join(<<CsvLine(ExportHeaders)>>
            \o [i \in 1..Len(validatedProducts) |-> CsvLine(ExportRow(validatedProducts[i]))],
         <<"\n">>)

-----------------------------------------------------------------------------
(* Inputs of the pure-function harness *)
P1 == <<"P", "1">>
P2 == <<"P", "2">>
P9 == <<"P", "9">>
PL1 == <<"P", "L", "1">>
PL2 == <<"P", "L", "2">>
Rs == <<"R", "s">>
EUR == <<"E", "U", "R">>
INR == <<"I", "N", "R">>

BoundedSeq(S, n) == UNION {[1..k -> S] : k \in 0..n}

BaseRow ==
    [business_product_id |-> P1, pricelist_id |-> PL1, product_name |-> <<"W">>,
     product_mrp |-> 100, currency |-> Rs]

ValidRows ==
    {BaseRow,
     [BaseRow EXCEPT !.pricelist_id = PL2, !.product_mrp = 0, !.currency = EUR],
     [BaseRow EXCEPT !.business_product_id = P2]}

FaultRows ==
    {[BaseRow EXCEPT !.product_mrp = -5],
     [BaseRow EXCEPT !.currency = INR],
     [BaseRow EXCEPT !.currency = <<"r", "s">>],
     [BaseRow EXCEPT !.business_product_id = <<>>],
     [BaseRow EXCEPT !.pricelist_id = Undefined],
     [BaseRow EXCEPT !.product_name = <<" ">>],
     [business_product_id |-> <<" ">>, pricelist_id |-> <<>>, product_name |-> Undefined,
      product_mrp |-> -5, currency |-> Undefined]}

Rows == ValidRows \cup FaultRows

Digit == <<"1", "2", "3", "4", "5", "6", "7", "8", "9">>

\* `sku-${n}` for a one-digit n, given as its character
SkuId(d) == <<"s", "k", "u", "-", d>>

CatalogProduct(id, bpid, status) ==
    [id |-> id, business_product_id |-> bpid, pricelist_id |-> PL1,
     product_name |-> <<"C">>, product_mrp |-> 50, currency |-> Rs,
     product_status |-> status]

CatalogEntries ==
    ({P1} \X {"active", "inactive"}) \cup ({P9} \X {"active", "hide"})

Catalogs ==
    {[k \in 1..Len(e) |-> CatalogProduct(SkuId(Digit[k]), e[k][1], e[k][2])] :
        e \in BoundedSeq(CatalogEntries, MaxCat)}

-----------------------------------------------------------------------------
(* contexts/ProductContext.tsx *)
PL001 == <<"P", "L", "0", "0", "1">>
IPH15PRO == <<"I", "P", "H", "1", "5", "P", "R", "O">>
CTSHIRT001 == <<"C", "T", "S", "H", "I", "R", "T", "0", "0", "1">>
SGS24 == <<"S", "G", "S", "2", "4">>
WC001 == <<"W", "C", "0", "0", "1">>

\* generateMockData().mockProducts, the fields the import flow reads
MockProducts ==
    << [id |-> SkuId("1"), business_product_id |-> IPH15PRO, pricelist_id |-> PL001,
        product_name |-> <<"iPhone 15 Pro">>, product_mrp |-> 134900,
        currency |-> INR, product_status |-> "active"],
       [id |-> SkuId("2"), business_product_id |-> CTSHIRT001,
        pricelist_id |-> <<"P", "L", "0", "0", "2">>,
        product_name |-> <<"Cotton T-Shirt">>, product_mrp |-> 899,
        currency |-> INR, product_status |-> "active"],
       [id |-> SkuId("3"), business_product_id |-> SGS24, pricelist_id |-> PL001,
        product_name |-> <<"Samsung Galaxy S24">>, product_mrp |-> 79999,
        currency |-> INR, product_status |-> "active"],
       [id |-> SkuId("4"), business_product_id |-> WC001,
        pricelist_id |-> <<"P", "L", "0", "0", "3">>,
        product_name |-> <<"Wireless Charger">>, product_mrp |-> 2999,
        currency |-> INR, product_status |-> "inactive"] >>

\* Date.now() rendered in an id: one token per tick
TimeToken ==
    <<"t1", "t2", "t3", "t4", "t5", "t6", "t7", "t8", "t9", "t10", "t11", "t12",
      "t13", "t14", "t15", "t16", "t17", "t18", "t19", "t20">>

Field(r, f) == IF f \in DOMAIN r THEN r[f] ELSE Undefined

\* x || d for a string x
OrDefault(x, d) == IF x = Undefined \/ x = <<>> THEN d ELSE x

\* the newProduct object literal of addProduct
NewProduct(productData, now) ==
    [id |-> SkuId(TimeToken[now]),
     business_product_id |-> OrDefault(Field(productData, "business_product_id"), <<>>),
     pricelist_id |-> OrDefault(Field(productData, "pricelist_id"), PL001),
     product_name |-> OrDefault(Field(productData, "product_name"), <<>>),
     product_mrp |-> productData.product_mrp,
     currency |-> OrDefault(Field(productData, "currency"), INR),
     product_status |->
        IF "product_status" \in DOMAIN productData THEN productData.product_status
        ELSE "active"]

\* setProducts(prev => [...prev, newProduct])
addProduct(prev, productData, now) == Append(prev, NewProduct(productData, now))

\* product.id === id
UpdateMatches(product, id) == product.id = id

\* setProducts(prev => prev.map(product => product.id === id ? {...product, ...productData} : product))
updateProduct(prev, id, productData) ==
    [k \in 1..Len(prev) |->
        IF UpdateMatches(prev[k], id) THEN productData @@ prev[k] ELSE prev[k]]

NoError == <<>>

\* how the cache write at the end of a store function ends: localForage.setItem
\* resolves or rejects
StoreOutcomes == {"ok", "cacheWriteFails"}

\* the message the catch block of the store function puts in error
StoreError(outcome, previous) ==
    IF outcome = "ok" THEN previous ELSE <<"cache write failed">>

StoreCallRejects_OnFailure(outcome) == outcome # "ok"

\* whether the promise returned by addProduct / updateProduct rejects: the whole
\* body is inside try/catch and the catch block does not rethrow
StoreCallRejects(outcome) == FALSE

\* setProducts(prev => prev.filter(product => product.id !== id))
deleteProduct(prev, id) ==
    LET Keep(product) == product.id # id
    IN  SelectSeq(prev, Keep)

\* what a store function called with (id, productData) makes of a product list
ApplyStoreOp(op, list, id, productData, now) ==
    CASE op = "addProduct" -> addProduct(list, productData, now)
      [] op = "updateProduct" -> updateProduct(list, id, productData)
      [] op = "deleteProduct" -> deleteProduct(list, id)

\* the OfflineAction literal of the store function
OfflineAction(op, id, productData, now) ==
    [id |-> <<"action-", TimeToken[now]>>,
     type |-> CASE op = "addProduct" -> "CREATE"
                [] op = "updateProduct" -> "UPDATE"
                [] op = "deleteProduct" -> "DELETE",
     entity |-> "sku",
     data |-> CASE op = "addProduct" -> NewProduct(productData, now)
                [] op = "updateProduct" -> productData @@ [id |-> id]
                [] op = "deleteProduct" -> [id |-> id]]

\* const updatedActions = [...offlineActions, action], with the offlineActions of
\* the render the function belongs to
saveOfflineAction(renderedActions, action) == Append(renderedActions, action)

\* the values a render of ProductProvider binds into its store functions; a
\* handler that awaits several calls keeps the functions of the render it started in
NoClosure == [held |-> FALSE, page |-> "none", made |-> 0, products |-> <<>>,
              offlineActions |-> <<>>, isOffline |-> FALSE]

Closure(page) ==
    [held |-> TRUE, page |-> page, made |-> 0, products |-> products,
     offlineActions |-> offlineActions, isOffline |-> isOffline]

\* addProduct / updateProduct / deleteProduct as called through the held functions:
\* the offline action is saved first, then setProducts runs on the current list,
\* then the list computed from the render's products is written to the cache
StoreCall(op, id, productData, outcome) ==
    /\ IF closure.isOffline
       THEN /\ offlineActions' =
                  saveOfflineAction(closure.offlineActions,
                                    OfflineAction(op, id, productData, clock))
            /\ persistedActions' = offlineActions'
       ELSE UNCHANGED <<offlineActions, persistedActions>>
    /\ products' = ApplyStoreOp(op, products, id, productData, clock)
    /\ cachedProducts' =
          IF outcome = "ok"
          THEN ApplyStoreOp(op, closure.products, id, productData, clock)
          ELSE cachedProducts
    /\ clock' = IF op = "addProduct" THEN clock + 1 ELSE clock
    /\ error' = StoreError(outcome, error)

\* offlineActions of the first render, which the listeners registered by the
\* effect with an empty dependency list keep for the life of the provider
MountOfflineActions == <<>>

\* if (offlineActions.length === 0) return; then clearOfflineActions()
syncOfflineActions(renderedActions, queue) ==
    IF Len(renderedActions) = 0 THEN queue ELSE <<>>

\* the 'online' listener
handleOnline ==
    /\ isOffline
    /\ isOffline' = FALSE
    /\ offlineActions' = syncOfflineActions(MountOfflineActions, offlineActions)
    /\ persistedActions' = syncOfflineActions(MountOfflineActions, persistedActions)
    /\ UNCHANGED <<cachedProducts, closure, calls, storeVars, dialogVars, pageVars, syncVars,
                   failVars, missingVars, tableVars, valVars>>

\* the 'offline' listener
handleOffline ==
    /\ ~isOffline
    /\ isOffline' = TRUE
    /\ UNCHANGED <<offlineActions, persistedActions, cachedProducts, closure, calls,
                   storeVars, dialogVars, pageVars, syncVars, failVars, missingVars,
                   tableVars, valVars>>

-----------------------------------------------------------------------------
(* pages/ImportPage.tsx *)
NoData == [summary |-> NoSummary]
NoFile == <<>>
\* rawData absent; an uploaded file always has at least one row
NoRawData == <<>>

ImportedFile(id, validationStatus, updateStatus, canRestore, rawData) ==
    [id |-> id, validationStatus |-> validationStatus, updateStatus |-> updateStatus,
     canRestore |-> canRestore, rawData |-> rawData, validationSummary |-> NoSummary]

\* the three files of the useState initialiser
InitialFiles ==
    << ImportedFile(<<"1">>, "not_started", "not_started", FALSE, NoRawData),
       ImportedFile(<<"2">>, "completed", "completed", TRUE, NoRawData),
       ImportedFile(<<"3">>, "completed", "not_started", FALSE, NoRawData) >>

\* replace(/"/g, '')
RECURSIVE StripQuotes(_)
StripQuotes(s) ==
    IF s = <<>> THEN <<>>
    ELSE IF Head(s) = "\"" THEN StripQuotes(Tail(s))
    ELSE <<Head(s)>> \o StripQuotes(Tail(s))

\* v.trim().replace(/"/g, '') of one cell of a split line
CellValue(v) == StripQuotes(Trim(v))

IsDigit(c) == \E d \in 0..9 : DigitChar[d + 1] = c

DigitValue(c) == CHOOSE d \in 0..9 : DigitChar[d + 1] = c

\* number of leading decimal digits of s
RECURSIVE LeadingDigits(_)
LeadingDigits(s) ==
    IF s # <<>> /\ IsDigit(Head(s)) THEN 1 + LeadingDigits(Tail(s)) ELSE 0

RECURSIVE DigitsValue(_)
DigitsValue(s) ==
    IF s = <<>> THEN 0
    ELSE 10 * DigitsValue(SubSeq(s, 1, Len(s) - 1)) + DigitValue(s[Len(s)])

NaN == [nan |-> TRUE, value |-> 0]

\* parseFloat of a text without decimal point or exponent: leading white space is
\* skipped, an optional sign and the longest run of digits are read, anything
\* after it is ignored, and there is no number when no digit is found
parseFloat(s) ==
    LET t == TrimStart(s)
        signed == t # <<>> /\ Head(t) \in {"-", "+"}
        body == IF signed THEN Tail(t) ELSE t
        n == LeadingDigits(body)
        magnitude == DigitsValue(SubSeq(body, 1, n))
    IN  IF n = 0 THEN NaN
        ELSE [nan |-> FALSE,
              value |-> IF Head(t) = "-" THEN 0 - magnitude ELSE magnitude]

\* parseFloat(value) || d
ParseFloatOr(value, d) ==
    LET r == parseFloat(value)
    IN  IF r.nan \/ r.value = 0 THEN d ELSE r.value

DEFAULT_PRICELIST == <<"DEFAULT_PRICELIST">>

\* header.toLowerCase(), for the header names the files of the model use
ToLowerCase(h) ==
    CASE h = <<"ProductId">> -> <<"productid">>
      [] h = <<"Name">> -> <<"name">>
      [] h = <<"MRP">> -> <<"mrp">>
      [] h = <<"Currency">> -> <<"currency">>
      [] OTHER -> h

\* the switch on the header: the field a column is stored in
FieldOfHeader(header) ==
    LET h == ToLowerCase(header)
    IN  IF h \in {<<"business_product_id">>, <<"productid">>, <<"product_id">>}
        THEN "business_product_id"
        ELSE IF h = <<"pricelist_id">> THEN "pricelist_id"
        ELSE IF h \in {<<"product_name">>, <<"name">>} THEN "product_name"
        ELSE IF h \in {<<"product_mrp">>, <<"mrp">>} THEN "product_mrp"
        ELSE IF h = <<"currency">> THEN "currency"
        ELSE "other"

\* the last column stored in the field, 0 when no column is
ColumnOf(headers, field) ==
    LET cols == {c \in 1..Len(headers) : FieldOfHeader(CellValue(headers[c])) = field}
    IN  IF cols = {} THEN 0 ELSE CHOOSE c \in cols : \A d \in cols : d <= c

\* the value of a text field of the product, undefined when the file has no such column
TextField(headers, values, field) ==
    IF ColumnOf(headers, field) = 0 THEN Undefined
    ELSE CellValue(values[ColumnOf(headers, field)])

\* the product built from one data line; every file of the model has an MRP column
ParseLine(headers, values) ==
    [business_product_id |-> TextField(headers, values, "business_product_id"),
     pricelist_id |->
        IF ColumnOf(headers, "pricelist_id") = 0 THEN Undefined
        ELSE OrDefault(TextField(headers, values, "pricelist_id"), DEFAULT_PRICELIST),
     product_name |-> TextField(headers, values, "product_name"),
     product_mrp |-> ParseFloatOr(CellValue(values[ColumnOf(headers, "product_mrp")]), 0),
     currency |-> TextField(headers, values, "currency")]

\* values.length >= headers.length, and product.business_product_id && product.product_name
LineKept(headers, values) ==
    /\ Len(values) >= Len(headers)
    /\ ParseLine(headers, values).business_product_id \notin {Undefined, <<>>}
    /\ ParseLine(headers, values).product_name \notin {Undefined, <<>>}

\* line.trim() is empty: a line of whitespace only, which split(',') makes one cell
IsBlankLine(values) == Len(values) = 1 /\ Trim(values[1]) = <<>>

\* text.split('\n').filter(line => line.trim()), without the header line
NonBlankLines(lines) ==
    LET Keep(values) == ~IsBlankLine(values)
    IN  SelectSeq(lines, Keep)

\* rawData after the loop over the data lines
ParseFile(text) ==
    LET Keep(values) == LineKept(text.headers, values)
        kept == SelectSeq(NonBlankLines(text.lines), Keep)
    IN  [i \in 1..Len(kept) |-> ParseLine(text.headers, kept[i])]

AllowedTypes == {".csv", ".xlsx", ".xls"}

NoToast == "none"

UploadToast_AlwaysSuccess(text) == "import.uploadSuccess"

\* the toast handleFileUpload ends with: the three refusals return before the
\* file record is built
UploadToast(text) ==
    IF text.extension \notin AllowedTypes THEN "import.invalidFileType"
    ELSE IF 1 + Len(NonBlankLines(text.lines)) < 2 THEN "import.emptyFile"
    ELSE IF Len(ParseFile(text)) = 0 THEN "import.noValidData"
    ELSE "import.uploadSuccess"

\* rows as handleFileUpload builds them: values trimmed, MRP a number, and only
\* rows with a business id and a name are kept
UploadRow(bpid, mrp, cur) ==
    [business_product_id |-> bpid, pricelist_id |-> PL001, product_name |-> <<"W">>,
     product_mrp |-> mrp, currency |-> cur]

RowUpdate == UploadRow(IPH15PRO, 100, Rs)
RowInsert == UploadRow(<<"N", "1">>, 0, EUR)

CanonicalHeaders ==
    << <<"business_product_id">>, <<"pricelist_id">>, <<"product_name">>,
       <<"product_mrp">>, <<"currency">> >>

\* a file without the product_name column
NoNameHeaders ==
    << <<"business_product_id">>, <<"pricelist_id">>, <<"product_mrp">>, <<"currency">> >>

AliasHeaders ==
    << <<"ProductId">>, <<"pricelist_id">>, <<"Name">>, <<" ", "MRP">>, <<"\"", "Currency", "\"">> >>

TextLine(bpid, mrpText, cur) == <<bpid, PL001, <<"W">>, mrpText, cur>>

LineUpdate == TextLine(IPH15PRO, <<"1", "0", "0">>, Rs)
LineInsert == TextLine(<<"N", "1">>, <<"0">>, EUR)
LineError == TextLine(<<"N", "2">>, <<"-", "5">>, Rs)

\* the files offered to handleFileUpload, as header cells and data lines
UploadTexts ==
    {[extension |-> ".csv", headers |-> CanonicalHeaders, lines |-> l] :
        l \in {<<LineInsert, LineUpdate>>, <<LineUpdate>>, <<LineInsert, LineError>>}}

FileById(id) == CHOOSE f \in {importedFiles[k] : k \in 1..Len(importedFiles)} : f.id = id

HasFile(id) == \E k \in 1..Len(importedFiles) : importedFiles[k].id = id

Uploaded == Len(importedFiles) - Len(InitialFiles)

\* what handleFileUpload does to the page for a file with the given text
UploadEffect(text) ==
    /\ uploadToast' = UploadToast(text)
    /\ IF UploadToast(text) = "import.uploadSuccess"
       THEN /\ importedFiles' =
                  <<ImportedFile(<<TimeToken[clock]>>, "not_started", "not_started", FALSE,
                                 ParseFile(text))>> \o importedFiles
            /\ clock' = clock + 1
       ELSE UNCHANGED <<importedFiles, clock>>
    /\ isProcessing' = FALSE

\* New Import is disabled while isProcessing; the handler ends with setIsProcessing(false)
handleFileUpload(text) ==
    /\ ~isProcessing
    /\ Uploaded < MaxUploads
    /\ UploadEffect(text)
    /\ UNCHANGED <<products, dialogVars, currentValidationData, currentFileId,
                   syncVars, valVars, offlineVars, updateTimers, failVars, missingVars>>

\* Validate Products is disabled for a validated file and for one without rawData;
\* the handler ends with setIsProcessing(false)
handleValidateProducts(fileId) ==
    /\ HasFile(fileId)
    /\ LET file == FileById(fileId)
       IN  /\ file.validationStatus \notin {"completed", "in_progress"}
           /\ file.rawData # NoRawData
           /\ LET validationSummary == validateProducts(file.rawData, products)
              IN  /\ importedFiles' =
                        [k \in 1..Len(importedFiles) |->
                            IF importedFiles[k].id = fileId
                            THEN [importedFiles[k] EXCEPT
                                    !.validationStatus = "completed",
                                    !.validationSummary = validationSummary]
                            ELSE importedFiles[k]]
                  /\ currentValidationData' =
                        [validatedProducts |-> validationSummary.validatedProducts,
                         summary |-> validationSummary,
                         missingProducts |-> validationSummary.missingProducts]
    /\ currentFileId' = fileId
    /\ showValidationPopup' = TRUE
    /\ isProcessing' = FALSE
    /\ UNCHANGED <<showValidationSummary, showMissingProductsDialog, showErrorLogTable,
                   showConfirmationDialog, storeVars, syncVars, valVars, offlineVars, tableVars, failVars, missingVars>>

handleValidationPopupClose ==
    /\ showValidationPopup /\ currentValidationData # NoData
    /\ showValidationPopup' = FALSE
    /\ showValidationSummary' = TRUE
    /\ UNCHANGED <<showMissingProductsDialog, showErrorLogTable, showConfirmationDialog,
                   pageVars, storeVars, syncVars, valVars, offlineVars, tableVars, failVars, missingVars>>

ValidationSummaryClose ==
    /\ showValidationSummary /\ currentValidationData # NoData
    /\ showValidationSummary' = FALSE
    /\ UNCHANGED <<showValidationPopup, showMissingProductsDialog, showErrorLogTable,
                   showConfirmationDialog, pageVars, storeVars, syncVars, valVars, offlineVars, tableVars, failVars, missingVars>>

handleShowMissingProducts ==
    /\ showValidationSummary /\ currentValidationData # NoData
    /\ Len(currentValidationData.summary.missingProducts) > 0
    /\ showValidationSummary' = FALSE
    /\ showMissingProductsDialog' = TRUE
    /\ UNCHANGED <<showValidationPopup, showErrorLogTable, showConfirmationDialog,
                   pageVars, storeVars, syncVars, valVars, offlineVars, tableVars, failVars, missingVars>>

\* the dialog is rendered under showMissingProductsDialog && currentValidationData
MissingProductsDialogMounted == showMissingProductsDialog /\ currentValidationData # NoData

\* X and Cancel of MissingProductsDialog; its state is discarded with it
MissingProductsDialogClose ==
    /\ MissingProductsDialogMounted
    /\ showMissingProductsDialog' = FALSE
    /\ selectedAction' = "show"
    /\ confirmThrew' = FALSE
    /\ UNCHANGED <<showValidationPopup, showValidationSummary, showErrorLogTable,
                   showConfirmationDialog, pageVars, storeVars, syncVars, valVars, offlineVars, tableVars, failVars>>

MissingProductAction == {"show", "hide", "delete", "deactivate"}

\* a radio button of the dialog: setSelectedAction(e.target.value)
MissingProductsSelect(action) ==
    /\ MissingProductsDialogMounted
    /\ action # selectedAction
    /\ selectedAction' = action
    /\ UNCHANGED <<confirmThrew, dialogVars, pageVars, storeVars, syncVars, valVars, offlineVars, tableVars, failVars>>

AfterMissingAction_Applied(prods, action, missing) ==
    LET IsMissing(p) == Includes(missing, p)
        NotMissing(p) == ~Includes(missing, p)
    IN  IF action = "delete" THEN SelectSeq(prods, NotMissing)
        ELSE IF action = "show" THEN prods
        ELSE [k \in 1..Len(prods) |->
                IF IsMissing(prods[k])
                THEN [prods[k] EXCEPT !.product_status =
                         IF action = "hide" THEN "hide" ELSE "inactive"]
                ELSE prods[k]]

\* the catalog after Confirm: neither handleConfirm nor handleMissingProductsAction
\* calls a store function
AfterMissingAction(prods, action, missing) == prods

\* Confirm of the dialog: handleConfirm calls onConfirm(selectedAction), but ImportPage
\* passes the handler as onSelectAction, so onConfirm is undefined, the call throws
\* and onClose is not reached
MissingProductsConfirm ==
    /\ MissingProductsDialogMounted
    /\ products' = AfterMissingAction(products, selectedAction,
                                      currentValidationData.missingProducts)
    /\ confirmThrew' = TRUE
    /\ UNCHANGED <<clock, selectedAction, dialogVars, pageVars, syncVars, valVars, offlineVars, tableVars, failVars>>

handleShowErrorLog ==
    /\ showValidationSummary /\ currentValidationData # NoData
    /\ currentValidationData.summary.errorRows > 0
    /\ showValidationSummary' = FALSE
    /\ showErrorLogTable' = TRUE
    /\ UNCHANGED <<showValidationPopup, showMissingProductsDialog, showConfirmationDialog,
                   pageVars, storeVars, syncVars, valVars, offlineVars, tableVars, failVars, missingVars>>

ErrorLogTableClose ==
    /\ showErrorLogTable /\ currentValidationData # NoData
    /\ showErrorLogTable' = FALSE
    /\ UNCHANGED <<showValidationPopup, showValidationSummary, showMissingProductsDialog,
                   showConfirmationDialog, pageVars, storeVars, syncVars, valVars, offlineVars, tableVars, failVars, missingVars>>

\* the Sync to Database button is rendered only under canSync (ValidationSummary.tsx)
handleSyncToDatabase ==
    /\ showValidationSummary /\ currentValidationData # NoData
    /\ canSyncToDatabase(currentValidationData.summary)
    /\ showValidationSummary' = FALSE
    /\ showConfirmationDialog' = TRUE
    /\ UNCHANGED <<showValidationPopup, showMissingProductsDialog, showErrorLogTable,
                   pageVars, storeVars, syncVars, valVars, offlineVars, tableVars, failVars, missingVars>>

\* Cancel and X of ConfirmationDialog, disabled while its confirm is running
ConfirmationDialogClose ==
    /\ showConfirmationDialog /\ currentValidationData # NoData
    /\ syncPc = "idle"
    /\ showConfirmationDialog' = FALSE
    /\ UNCHANGED <<showValidationPopup, showValidationSummary, showMissingProductsDialog,
                   showErrorLogTable, pageVars, storeVars, syncVars, valVars, offlineVars, tableVars, failVars, missingVars>>

StoreOpFor_AlwaysUpdate(validatedProduct) ==
    IF validatedProduct.validation.status = "accepted"
    THEN "updateProduct"
    ELSE "none"

\* the body of the for-loop of handleConfirmSync: which store function the row gets
StoreOpFor(validatedProduct) ==
    IF validatedProduct.validation.status = "accepted"
    THEN IF validatedProduct.validation.action = "insert" THEN "addProduct"
         ELSE IF validatedProduct.validation.action = "update" THEN "updateProduct"
         ELSE "none"
    ELSE "none"

\* first row at or after position i that awaits a store call; Len + 1 when none does
RECURSIVE NextCallIdx(_, _)
NextCallIdx(rows, i) ==
    IF i > Len(rows) THEN Len(rows) + 1
    ELSE IF StoreOpFor(rows[i]) # "none" THEN i
    ELSE NextCallIdx(rows, i + 1)

\* Confirm of ConfirmationDialog: handleConfirmSync up to its for-loop
handleConfirmSync ==
    /\ showConfirmationDialog /\ currentValidationData # NoData
    /\ ~isProcessing /\ syncPc = "idle"
    /\ currentFileId # NoFile
    /\ isProcessing' = TRUE
    /\ importedFiles' =
          [k \in 1..Len(importedFiles) |->
              IF importedFiles[k].id = currentFileId
              THEN [importedFiles[k] EXCEPT !.updateStatus = "in_progress"]
              ELSE importedFiles[k]]
    /\ syncPc' = "loop"
    /\ syncIdx' = 1
    /\ syncData' = [validatedProducts |-> currentValidationData.validatedProducts,
                    summary |-> currentValidationData.summary,
                    fileId |-> currentFileId]
    /\ syncCalls' = <<>>
    /\ syncFailed' = {}
    /\ closure' = Closure("ImportPage")
    /\ UNCHANGED <<dialogVars, currentValidationData, currentFileId, storeVars, valVars,
                   isOffline, offlineActions, persistedActions, cachedProducts, calls,
                   tableVars, error, missingVars>>

\* one iteration that awaits addProduct or updateProduct; setProducts has run
\* before the cache write whose outcome is given
SyncCall(outcome) ==
    /\ syncPc = "loop"
    /\ LET j == NextCallIdx(syncData.validatedProducts, syncIdx)
       IN  /\ j <= Len(syncData.validatedProducts)
           /\ LET validatedProduct == syncData.validatedProducts[j]
                  op == StoreOpFor(validatedProduct)
              IN  /\ StoreCall(op, validatedProduct.business_product_id, validatedProduct,
                               outcome)
                  /\ syncCalls' = Append(syncCalls, [op |-> op, rowIndex |-> validatedProduct.rowIndex])
                  /\ syncFailed' = IF outcome = "ok" THEN syncFailed
                                   ELSE syncFailed \cup {validatedProduct.rowIndex}
           /\ syncIdx' = j + 1
    /\ IF StoreCallRejects(outcome)
       THEN \* the catch and finally blocks of handleConfirmSync
            /\ importedFiles' =
                  [k \in 1..Len(importedFiles) |->
                      IF importedFiles[k].id = syncData.fileId
                      THEN [importedFiles[k] EXCEPT !.updateStatus = "failed"]
                      ELSE importedFiles[k]]
            /\ isProcessing' = FALSE
            /\ syncPc' = "idle"
       ELSE UNCHANGED <<importedFiles, isProcessing, syncPc>>
    /\ UNCHANGED <<syncData, dialogVars, currentValidationData, currentFileId, valVars,
                   isOffline, closure, calls, tableVars, missingVars>>

\* the loop is over: the file is marked updated and the dialog state is reset
SyncFinish ==
    /\ syncPc = "loop"
    /\ NextCallIdx(syncData.validatedProducts, syncIdx) > Len(syncData.validatedProducts)
    /\ importedFiles' =
          [k \in 1..Len(importedFiles) |->
              IF importedFiles[k].id = syncData.fileId
              THEN [importedFiles[k] EXCEPT !.updateStatus = "completed", !.canRestore = TRUE]
              ELSE [importedFiles[k] EXCEPT !.canRestore = FALSE]]
    /\ showConfirmationDialog' = FALSE
    /\ currentValidationData' = NoData
    /\ currentFileId' = NoFile
    /\ isProcessing' = FALSE
    /\ syncPc' = "idle"
    /\ selectedAction' = "show"
    /\ confirmThrew' = FALSE
    /\ closure' = NoClosure
    /\ UNCHANGED <<syncIdx, syncData, syncCalls>>
    /\ UNCHANGED <<showValidationPopup, showValidationSummary, showMissingProductsDialog,
                   showErrorLogTable, storeVars, valVars, isOffline, offlineActions,
                   persistedActions, cachedProducts, calls, tableVars, failVars>>

\* the disabled attribute of the Update Products button
UpdateDisabled(file) ==
    \/ file.validationStatus # "completed"
    \/ file.updateStatus \in {"completed", "in_progress"}

\* Update Products of a file row: the file is marked in progress and a timer of
\* three seconds is started
handleUpdateProducts(fileId) ==
    /\ HasFile(fileId)
    /\ ~UpdateDisabled(FileById(fileId))
    /\ importedFiles' =
          [k \in 1..Len(importedFiles) |->
              IF importedFiles[k].id = fileId
              THEN [importedFiles[k] EXCEPT !.updateStatus = "in_progress"]
              ELSE importedFiles[k]]
    /\ updateTimers' = updateTimers \cup {fileId}
    /\ UNCHANGED <<currentValidationData, currentFileId, isProcessing, uploadToast,
                   storeVars, dialogVars, syncVars, failVars, missingVars, offlineVars,
                   valVars>>

CompleteUpdate_KeepOthers(prev, fileId) ==
    [k \in 1..Len(prev) |->
        IF prev[k].id = fileId
        THEN [prev[k] EXCEPT !.updateStatus = "completed", !.canRestore = TRUE]
        ELSE prev[k]]

\* the updater the timer callback hands to setImportedFiles
CompleteUpdate(prev, fileId) ==
    [k \in 1..Len(prev) |->
        IF prev[k].id = fileId
        THEN [prev[k] EXCEPT !.updateStatus = "completed", !.canRestore = TRUE]
        ELSE [prev[k] EXCEPT !.canRestore = FALSE]]

\* the callback of the timer: the file is marked updated and becomes the only
\* file that can be restored
UpdateTimerFires(fileId) ==
    /\ fileId \in updateTimers
    /\ importedFiles' = CompleteUpdate(importedFiles, fileId)
    /\ updateTimers' = updateTimers \ {fileId}
    /\ UNCHANGED <<currentValidationData, currentFileId, isProcessing, uploadToast,
                   storeVars, dialogVars, syncVars, failVars, missingVars, offlineVars,
                   valVars>>

\* the state after the providers and the page have mounted
WorkInit ==
    /\ products = MockProducts
    /\ clock = 1
    /\ importedFiles = InitialFiles
    /\ showValidationPopup = FALSE
    /\ showValidationSummary = FALSE
    /\ showMissingProductsDialog = FALSE
    /\ showErrorLogTable = FALSE
    /\ showConfirmationDialog = FALSE
    /\ currentValidationData = NoData
    /\ currentFileId = NoFile
    /\ isProcessing = FALSE
    /\ syncPc = "idle"
    /\ syncIdx = 1
    /\ syncData = NoData
    /\ syncCalls = <<>>
    /\ error = NoError
    /\ syncFailed = {}
    /\ selectedAction = "show"
    /\ confirmThrew = FALSE
    /\ isOffline = FALSE
    /\ offlineActions = <<>>
    /\ persistedActions = <<>>
    /\ cachedProducts = MockProducts
    /\ closure = NoClosure
    /\ calls = 0
    /\ uploadToast = NoToast
    /\ updateTimers = {}

NoText == [extension |-> <<>>, headers |-> <<>>, lines |-> <<>>]
NoCsv == <<>>

Init ==
    /\ WorkInit
    /\ importData = <<>>
    /\ existingProducts = <<>>
    /\ summary = NoSummary
    /\ canSync = "unset"
    /\ pc = "page"
    /\ fileText = NoText
    /\ csvContent = NoCsv

Next ==
    \/ \E text \in UploadTexts : handleFileUpload(text)
    \/ \E k \in 1..Len(importedFiles) : handleValidateProducts(importedFiles[k].id)
    \/ handleValidationPopupClose
    \/ ValidationSummaryClose
    \/ handleShowMissingProducts
    \/ MissingProductsDialogClose
    \/ \E action \in MissingProductAction : MissingProductsSelect(action)
    \/ MissingProductsConfirm
    \/ handleShowErrorLog
    \/ ErrorLogTableClose
    \/ handleSyncToDatabase
    \/ ConfirmationDialogClose
    \/ handleConfirmSync
    \/ \E outcome \in StoreOutcomes : SyncCall(outcome)
    \/ SyncFinish

Spec == Init /\ [][Next]_vars

-----------------------------------------------------------------------------
(* SpecF: the file table of ImportPage: upload, validation, the two ways a file
   becomes updated (the confirmed sync and the Update Products button with its
   timer), with every cache write succeeding *)
InitF ==
    /\ WorkInit
    /\ importData = <<>>
    /\ existingProducts = <<>>
    /\ summary = NoSummary
    /\ canSync = "unset"
    /\ pc = "table"
    /\ fileText = NoText
    /\ csvContent = NoCsv

NextF ==
    \/ \E text \in UploadTexts : Uploaded < MaxTableUploads /\ handleFileUpload(text)
    \/ \E k \in 1..Len(importedFiles) : handleValidateProducts(importedFiles[k].id)
    \/ handleValidationPopupClose
    \/ ValidationSummaryClose
    \/ handleSyncToDatabase
    \/ handleConfirmSync
    \/ SyncCall("ok")
    \/ SyncFinish
    \/ \E k \in 1..Len(importedFiles) : handleUpdateProducts(importedFiles[k].id)
    \/ \E fileId \in updateTimers : UpdateTimerFires(fileId)

SpecF == InitF /\ [][NextF]_vars

-----------------------------------------------------------------------------
(* SpecV: validateProducts applied to every bounded batch and catalog, then
   canSyncToDatabase applied to its result *)
InitV ==
    /\ importData \in BoundedSeq(Rows, MaxBatch)
    /\ existingProducts \in Catalogs
    /\ summary = NoSummary
    /\ canSync = "unset"
    /\ pc = "input"
    /\ fileText = NoText
    /\ csvContent = NoCsv
    /\ WorkInit

CallValidateProducts ==
    /\ pc = "input"
    /\ summary' = validateProducts(importData, existingProducts)
    /\ pc' = "validated"
    /\ UNCHANGED <<importData, existingProducts, canSync, fileText, csvContent, workVars>>

CallCanSync ==
    /\ pc = "validated"
    /\ canSync' = canSyncToDatabase(summary)
    /\ pc' = "gated"
    /\ UNCHANGED <<importData, existingProducts, summary, fileText, csvContent, workVars>>

NextV == CallValidateProducts \/ CallCanSync

SpecV == InitV /\ [][NextV]_vars

-----------------------------------------------------------------------------
(* SpecU: the parser of handleFileUpload applied to every bounded file, then
   validateProducts against the catalog, canSyncToDatabase and the export *)
N1 == <<"N", "1">>
N2 == <<"N", "2">>
N3 == <<"N", "3">>

DataLines ==
    {<<N1, PL001, <<"W">>, <<"1", "0", "0">>, Rs>>,
     <<N1, PL001, <<"W">>, <<"0">>, Rs>>,
     <<N2, PL001, <<"W">>, <<"a", "b", "c">>, EUR>>,
     <<N2, PL001, <<"W">>, <<"-", "5">>, EUR>>,
     <<N3, <<>>, <<"W">>, <<>>, Rs>>,
     <<<<"\"", "N", "3", "\"">>, PL001, <<" ", "W", " ">>, <<"\"", "1", "2", "x", "\"">>, <<"R", "s", " ">>>>,
     <<IPH15PRO, PL001, <<" ">>, <<"7">>, Rs>>,
     <<N1, PL001, <<"W">>, <<"7">>>>,
     << <<" ">> >>}

InitU ==
    /\ fileText \in {[extension |-> ".csv", headers |-> h, lines |-> l] :
                        h \in {CanonicalHeaders, AliasHeaders, NoNameHeaders},
                        l \in BoundedSeq(DataLines, MaxLines)}
                     \cup {[extension |-> ".txt", headers |-> CanonicalHeaders,
                            lines |-> <<LineInsert>>]}
    /\ importData = <<>>
    /\ existingProducts = MockProducts
    /\ summary = NoSummary
    /\ canSync = "unset"
    /\ pc = "text"
    /\ csvContent = NoCsv
    /\ WorkInit

\* handleFileUpload for the file; the rawData of the record it adds, if it adds
\* one, is what the Validate button hands to validateProducts
CallParse ==
    /\ pc = "text"
    /\ UploadEffect(fileText)
    /\ importData' = IF Len(importedFiles') > Len(importedFiles)
                     THEN importedFiles'[1].rawData
                     ELSE <<>>
    /\ pc' = IF Len(importedFiles') > Len(importedFiles) THEN "input" ELSE "refused"
    /\ UNCHANGED <<existingProducts, summary, canSync, fileText, csvContent, products,
                   dialogVars, currentValidationData, currentFileId, syncVars, failVars,
                   missingVars, offlineVars, updateTimers>>

CallExport ==
    /\ pc = "gated"
    /\ csvContent' = exportValidationResults(summary.validatedProducts)
    /\ pc' = "exported"
    /\ UNCHANGED <<importData, existingProducts, summary, canSync, fileText, workVars>>

NextU == CallParse \/ CallValidateProducts \/ CallCanSync \/ CallExport

SpecU == InitU /\ [][NextU]_vars

-----------------------------------------------------------------------------
(* SpecS: the store of ProductContext with its offline queue and its cache,
   called by handlers that hold the store functions of the render they started
   in, while the browser goes offline and online; every cache write succeeds *)

\* the calls a handler of ProductsPage makes: one per handler
PageCalls ==
    {[op |-> "addProduct", id |-> <<>>, data |-> RowInsert],
     [op |-> "updateProduct", id |-> SkuId("1"), data |-> [product_status |-> "inactive"]],
     [op |-> "deleteProduct", id |-> SkuId("2"), data |-> [product_status |-> "active"]]}

\* the calls the for-loop of handleConfirmSync awaits one after another
LoopCalls ==
    {[op |-> "addProduct", id |-> N1, data |-> RowInsert],
     [op |-> "addProduct", id |-> N2, data |-> UploadRow(N2, 50, Rs)],
     [op |-> "updateProduct", id |-> IPH15PRO, data |-> RowUpdate]}

InitS ==
    /\ WorkInit
    /\ importData = <<>>
    /\ existingProducts = <<>>
    /\ summary = NoSummary
    /\ canSync = "unset"
    /\ pc = "store"
    /\ fileText = NoText
    /\ csvContent = NoCsv

\* a handler is invoked and takes the store functions of the current render
HandlerStarts(page) ==
    /\ ~closure.held
    /\ calls < MaxCalls
    /\ closure' = Closure(page)
    /\ UNCHANGED <<isOffline, offlineActions, persistedActions, cachedProducts, calls,
                   storeVars, dialogVars, pageVars, syncVars, failVars, missingVars,
                   tableVars, valVars>>

\* the handler awaits one store call
HandlerCall(c) ==
    /\ closure.held
    /\ calls < MaxCalls
    /\ IF closure.page = "ProductsPage"
       THEN closure.made = 0 /\ c \in PageCalls
       ELSE c \in LoopCalls
    /\ StoreCall(c.op, c.id, c.data, "ok")
    /\ closure' = [closure EXCEPT !.made = @ + 1]
    /\ calls' = calls + 1
    /\ UNCHANGED <<isOffline, dialogVars, pageVars, syncVars, syncFailed, missingVars,
                   tableVars, valVars>>

\* the handler returns
HandlerReturns ==
    /\ closure.held
    /\ closure.made > 0
    /\ closure' = NoClosure
    /\ UNCHANGED <<isOffline, offlineActions, persistedActions, cachedProducts, calls,
                   storeVars, dialogVars, pageVars, syncVars, failVars, missingVars,
                   tableVars, valVars>>

NextS ==
    \/ \E page \in {"ProductsPage", "ImportPage"} : HandlerStarts(page)
    \/ \E c \in PageCalls \cup LoopCalls : HandlerCall(c)
    \/ HandlerReturns
    \/ handleOnline
    \/ handleOffline

SpecS == InitS /\ [][NextS]_vars

-----------------------------------------------------------------------------
(* SpecG: canSyncToDatabase applied to summaries of every mix of accepted,
   error and warning rows, with and without missing products *)
GateRow(status) ==
    [validation |->
        [status |-> status,
         action |-> IF status = "error" THEN "skip" ELSE "insert",
         errors |-> IF status = "error" THEN <<MsgMrp>> ELSE <<>>,
         warnings |-> IF status = "warning" THEN << <<"advisory">> >> ELSE <<>>,
         remark |-> <<"r">>],
     rowIndex |-> 0] @@ BaseRow

GateSummaries ==
    {Summarize([i \in 1..Len(st) |-> [GateRow(st[i]) EXCEPT !.rowIndex = i - 1]], m) :
        st \in BoundedSeq(ValidationStatus, MaxGateRows),
        m \in {<<>>, <<CatalogProduct(SkuId("1"), P9, "active")>>}}

InitG ==
    /\ importData = <<>>
    /\ existingProducts = <<>>
    /\ summary \in GateSummaries
    /\ canSync = "unset"
    /\ pc = "validated"
    /\ fileText = NoText
    /\ csvContent = NoCsv
    /\ WorkInit

NextG == CallCanSync

SpecG == InitG /\ [][NextG]_vars

-----------------------------------------------------------------------------
(* Properties of validateProduct / validateProducts (SpecV) *)
Validated == pc \in {"validated", "gated", "exported"}

RowIdx == 1..Len(summary.validatedProducts)

Verdict(i) == summary.validatedProducts[i].validation

BatchHas(bpid) == \E j \in 1..Len(importData) : importData[j].business_product_id = bpid

CatalogHas(bpid) ==
    \E k \in 1..Len(existingProducts) : existingProducts[k].business_product_id = bpid

\* C1: every validated row has status 'error' exactly when its errors list is
\* non-empty, and an error row always has action 'skip'.
C1_ErrorIffErrorsAndSkip ==
    Validated =>
        \A i \in RowIdx :
            /\ (Verdict(i).status = "error") <=> (Verdict(i).errors # <<>>)
            /\ (Verdict(i).status = "error") => (Verdict(i).action = "skip")

\* an error row whose business id is in the catalog: the tentative 'update' was overridden
C1_Witness ==
    /\ Validated
    /\ \E i \in RowIdx :
          /\ Verdict(i).status = "error"
          /\ Verdict(i).action = "skip"
          /\ CatalogHas(importData[i].business_product_id)

\* C2: status 'warning' implies no errors and some warning; status 'accepted'
\* implies no errors and no warnings.
C2_WarningAcceptedLists ==
    Validated =>
        \A i \in RowIdx :
            /\ (Verdict(i).status = "warning") =>
                   (Verdict(i).errors = <<>> /\ Verdict(i).warnings # <<>>)
            /\ (Verdict(i).status = "accepted") =>
                   (Verdict(i).errors = <<>> /\ Verdict(i).warnings = <<>>)

C2_Witness ==
    /\ Validated
    /\ \E i, j \in RowIdx : Verdict(i).status = "accepted" /\ Verdict(j).status = "error"

\* C3: the action counts and the status counts each add up to totalRows, which
\* is the length of the batch.
C3_CountsPartition ==
    Validated =>
        /\ summary.totalRows = Len(importData)
        /\ summary.insertCount + summary.updateCount + summary.skipCount = summary.totalRows
        /\ summary.acceptedRows + summary.errorRows + summary.warningRows = summary.totalRows

\* a batch of one update and one skipped error row
C3_Witness ==
    /\ Validated
    /\ summary.totalRows = 2
    /\ summary.updateCount = 1
    /\ summary.skipCount = 1
    /\ summary.errorRows = 1
    /\ summary.acceptedRows = 1

\* C4: canSyncToDatabase is true exactly when errorRows is 0, whatever the
\* warning count and the missing products are.
C4_CanSyncIffNoErrors ==
    (pc = "gated") => (canSync = (summary.errorRows = 0))

C4_Witness ==
    /\ pc = "gated"
    /\ canSync = TRUE
    /\ summary.warningRows > 0
    /\ Len(summary.missingProducts) > 0

\* C8: a row without errors has action 'update' when the catalog snapshot holds
\* a product with its business id and 'insert' otherwise; a row with errors has
\* 'skip'.  A valid row matching an active catalog product is an update and that
\* product is not reported missing.
C8_UpdateIffInCatalog ==
    Validated =>
        \A i \in RowIdx :
            /\ Verdict(i).action =
                   (IF Verdict(i).errors # <<>> THEN "skip"
                    ELSE IF CatalogHas(importData[i].business_product_id) THEN "update"
                    ELSE "insert")
            /\ \A k \in 1..Len(existingProducts) :
                   (/\ Verdict(i).errors = <<>>
                    /\ existingProducts[k].product_status = "active"
                    /\ existingProducts[k].business_product_id
                          = importData[i].business_product_id)
                   => (/\ Verdict(i).action = "update"
                       /\ ~Includes(summary.missingProducts, existingProducts[k]))

\* Scenario C, next to a row that is an insert
C8_Witness ==
    /\ Validated
    /\ \E i, j \in RowIdx :
          /\ Verdict(i).action = "update"
          /\ Verdict(j).action = "insert"
          /\ \E k \in 1..Len(existingProducts) :
                /\ existingProducts[k].product_status = "active"
                /\ existingProducts[k].business_product_id
                      = importData[i].business_product_id

\* C9: no missing product has a business id that occurs in a batch row, error
\* rows included.
C9_MissingNotInBatch ==
    Validated =>
        \A m \in 1..Len(summary.missingProducts) :
            ~BatchHas(summary.missingProducts[m].business_product_id)

\* an active catalog product is kept out of missingProducts by an error row alone
C9_Witness ==
    /\ Validated
    /\ \E k \in 1..Len(existingProducts) :
          /\ existingProducts[k].product_status = "active"
          /\ ~Includes(summary.missingProducts, existingProducts[k])
          /\ \A j \in RowIdx :
                importData[j].business_product_id = existingProducts[k].business_product_id
                    => Verdict(j).status = "error"

IsActiveAbsent(p) == p.product_status = "active" /\ ~BatchHas(p.business_product_id)

\* C10: missingProducts is the catalog, in catalog order, restricted to the
\* active products whose business id is in no batch row.
C10_MissingExact ==
    Validated => summary.missingProducts = SelectSeq(existingProducts, IsActiveAbsent)

\* a product is reported missing while a non-active absent product ahead of it is not
C10_Witness ==
    /\ Validated
    /\ Len(summary.missingProducts) = 1
    /\ Len(existingProducts) = 2
    /\ existingProducts[1].product_status # "active"
    /\ ~BatchHas(existingProducts[1].business_product_id)
    /\ summary.missingProducts[1] = existingProducts[2]

ErrorsOf(i) == Verdict(i).errors

\* the errors of row i hold a message that starts with the given text
HasErrorHead(i, head) == \E e \in 1..Len(ErrorsOf(i)) : ErrorsOf(i)[e][1] = head

SameKeyElsewhere(i) ==
    \E j \in 1..Len(importData) :
        /\ j # i
        /\ importData[j].pricelist_id = importData[i].pricelist_id
        /\ importData[j].business_product_id = importData[i].business_product_id

\* C11: a row has the duplicate error exactly when a row at another index of the
\* batch has the same pricelist id and the same business product id; every
\* member of such a group is an error row with action 'skip', and rows sharing
\* only the business id are not flagged.
C11_DuplicateIffSameKey ==
    Validated =>
        \A i \in RowIdx :
            /\ HasErrorHead(i, "Duplicate entry: (") <=> SameKeyElsewhere(i)
            /\ SameKeyElsewhere(i) =>
                   (Verdict(i).status = "error" /\ Verdict(i).action = "skip")

\* Scenario E: two otherwise valid rows with the same key, both flagged, the
\* first one included
C11_Witness ==
    /\ Validated
    /\ Len(importData) = 2
    /\ importData[1] = importData[2]
    /\ \A i \in RowIdx :
          /\ ErrorsOf(i) = <<MsgDuplicate(importData[i])>>
          /\ Verdict(i).action = "skip"

\* which of the six rules row i violates, in the order of the checks
RuleHits(i) ==
    << importData[i].product_mrp < 0,
       importData[i].currency \notin {Rs, EUR},
       SameKeyElsewhere(i),
       BlankAfterTrim(importData[i].business_product_id),
       BlankAfterTrim(importData[i].pricelist_id),
       BlankAfterTrim(importData[i].product_name) >>

RuleMessages(i) ==
    <<MsgMrp, MsgCurrency, MsgDuplicate(importData[i]), MsgBusinessId, MsgPricelist, MsgName>>

\* the messages of the violated rules among the first n, in rule order
RECURSIVE HitMessages(_, _)
HitMessages(i, n) ==
    IF n = 0 THEN <<>>
    ELSE IF RuleHits(i)[n] THEN Append(HitMessages(i, n - 1), RuleMessages(i)[n])
    ELSE HitMessages(i, n - 1)

HitCount(i) == Cardinality({r \in 1..6 : RuleHits(i)[r]})

\* C12: the errors list holds exactly one message per violated rule, in the
\* order MRP, currency, duplicate, business id, pricelist id, product name; a row
\* violating k rules carries k messages and is an error row exactly when k > 0.
C12_ErrorsPerRuleInOrder ==
    Validated =>
        \A i \in RowIdx :
            /\ ErrorsOf(i) = HitMessages(i, 6)
            /\ Len(ErrorsOf(i)) = HitCount(i)
            /\ (Verdict(i).status = "error") <=> (HitCount(i) > 0)

\* a row that violates all six rules at once
C12_Witness ==
    /\ Validated
    /\ \E i \in RowIdx : HitCount(i) = 6 /\ Len(ErrorsOf(i)) = 6

C15_InrAccepted ==
    Validated =>
        \A i \in RowIdx :
            (/\ importData[i].currency = INR
             /\ importData[i].product_mrp >= 0
             /\ ~SameKeyElsewhere(i)
             /\ ~BlankAfterTrim(importData[i].business_product_id)
             /\ ~BlankAfterTrim(importData[i].pricelist_id)
             /\ ~BlankAfterTrim(importData[i].product_name))
            => Verdict(i).status = "accepted"

\* C20: validatedProducts has one entry per batch row, in batch order: entry i
\* carries the 0-based index of row i and the field values of row i.
C20_OneRowPerBatchRow ==
    Validated =>
        /\ Len(summary.validatedProducts) = Len(importData)
        /\ \A i \in 1..Len(importData) :
              /\ summary.validatedProducts[i].rowIndex = i - 1
              /\ \A f \in DOMAIN importData[i] :
                    summary.validatedProducts[i][f] = importData[i][f]

\* two different rows, an error row first
C20_Witness ==
    /\ Validated
    /\ Len(summary.validatedProducts) = 2
    /\ importData[1] # importData[2]
    /\ Verdict(1).status = "error"
    /\ summary.validatedProducts[2].rowIndex = 1
    /\ summary.validatedProducts[2].business_product_id = importData[2].business_product_id

IsNotErrorRow(i) == Verdict(i).status # "error"

\* the batch without the rows that validation marked as errors, in batch order
RECURSIVE WithoutErrorRows(_)
WithoutErrorRows(n) ==
    IF n = 0 THEN <<>>
    ELSE IF IsNotErrorRow(n) THEN Append(WithoutErrorRows(n - 1), importData[n])
    ELSE WithoutErrorRows(n - 1)

Revalidated == validateProducts(WithoutErrorRows(Len(importData)), existingProducts)

\* C22: canSync is false exactly when some row is an error row, and validating
\* the batch without its error rows against the same catalog gives a summary
\* that can be synced, with every remaining row still free of errors.
C22_RemovingErrorsAllowsSync ==
    (pc = "gated") =>
        /\ (canSync = FALSE) <=> (\E i \in RowIdx : Verdict(i).status = "error")
        /\ canSyncToDatabase(Revalidated)
        /\ Revalidated.totalRows = Cardinality({i \in RowIdx : IsNotErrorRow(i)})
        /\ \A k \in 1..Revalidated.totalRows :
              Revalidated.validatedProducts[k].validation.status # "error"

\* Scenario F in small: one error row and one accepted row
C22_Witness ==
    /\ pc = "gated"
    /\ canSync = FALSE
    /\ Len(importData) = 2
    /\ Verdict(1).status = "error"
    /\ Verdict(2).status = "accepted"
    /\ Revalidated.totalRows = 1
    /\ Revalidated.errorRows = 0

\* C23: the remark is the error messages joined with "; " for an error row, the
\* warning messages joined the same way for a warning row, and for an accepted
\* row 'Product will be updated' for an update and 'New product will be added'
\* for an insert; it is never empty.
C23_RemarkComposition ==
    Validated =>
        \A i \in RowIdx :
            /\ (Verdict(i).status = "error")
                   => Verdict(i).remark = Join(Verdict(i).errors, <<"; ">>)
            /\ (Verdict(i).status = "warning")
                   => Verdict(i).remark = Join(Verdict(i).warnings, <<"; ">>)
            /\ (Verdict(i).status = "accepted" /\ Verdict(i).action = "update")
                   => Verdict(i).remark = <<"Product will be updated">>
            /\ (Verdict(i).status = "accepted" /\ Verdict(i).action = "insert")
                   => Verdict(i).remark = <<"New product will be added">>
            /\ Verdict(i).remark # <<>>

\* a row with several errors, whose remark holds the separator, next to an
\* accepted update
C23_Witness ==
    /\ Validated
    /\ \E i, j \in RowIdx :
          /\ Len(ErrorsOf(i)) >= 2
          /\ \E k \in 1..Len(Verdict(i).remark) : Verdict(i).remark[k] = "; "
          /\ Verdict(j).remark = <<"Product will be updated">>

\* C29: a row has action 'skip' only when its status is 'error'; skipCount
\* equals errorRows, and insertCount + updateCount is the number of rows that
\* are not error rows.
C29_SkipOnlyForErrors ==
    Validated =>
        /\ \A i \in RowIdx : (Verdict(i).action = "skip") => (Verdict(i).status = "error")
        /\ summary.skipCount = summary.errorRows
        /\ summary.insertCount + summary.updateCount
              = Cardinality({i \in RowIdx : Verdict(i).status # "error"})

\* an update next to an error row that would have been an update
C29_Witness ==
    /\ Validated
    /\ summary.updateCount = 1
    /\ summary.skipCount = 1
    /\ \A i \in RowIdx : CatalogHas(importData[i].business_product_id)

\* the rows the loop of the confirmed sync makes a store call for
StoreCallRows == {i \in RowIdx : StoreOpFor(summary.validatedProducts[i]) # "none"}

\* C30: no row has a warning: the warnings list is empty, status is never
\* 'warning', warningRows is 0, acceptedRows + errorRows is totalRows, and the
\* number of store calls of a confirmed sync is insertCount + updateCount.
C30_NoWarnings ==
    Validated =>
        /\ \A i \in RowIdx : Verdict(i).warnings = <<>> /\ Verdict(i).status # "warning"
        /\ summary.warningRows = 0
        /\ summary.acceptedRows + summary.errorRows = summary.totalRows
        /\ Cardinality(StoreCallRows) = summary.insertCount + summary.updateCount

\* an insert and an update, one of them priced 0: two store calls, no warning
C30_Witness ==
    /\ Validated
    /\ summary.insertCount = 1
    /\ summary.updateCount = 1
    /\ Cardinality(StoreCallRows) = 2
    /\ \E i \in RowIdx : importData[i].product_mrp = 0 /\ Verdict(i).status = "accepted"

-----------------------------------------------------------------------------
(* Properties of the upload parser followed by validation (SpecU) *)
KeptLine(values) == LineKept(fileText.headers, values)

\* the data lines that became rows, in file order: row i comes from KeptLines[i]
KeptLines == SelectSeq(fileText.lines, KeptLine)

\* the text of the MRP column, as the parser reads it
MrpText(values) == CellValue(values[ColumnOf(fileText.headers, "product_mrp")])

IsZeroText(t) == ~parseFloat(t).nan /\ parseFloat(t).value = 0

IsNonNumericText(t) == t # <<>> /\ parseFloat(t).nan

\* C16: a file row whose MRP column is zero or non-numeric text is an error row
\* after validation.
C16_ZeroOrTextMrpIsError ==
    (Validated /\ fileText # NoText) =>
        \A i \in RowIdx :
            (IsZeroText(MrpText(KeptLines[i])) \/ IsNonNumericText(MrpText(KeptLines[i])))
                => Verdict(i).status = "error"

\* the pieces of s between the occurrences of the token sep
RECURSIVE SplitOn(_, _)
SplitOn(s, sep) ==
    IF \A k \in 1..Len(s) : s[k] # sep THEN <<s>>
    ELSE LET k == CHOOSE m \in 1..Len(s) :
                      s[m] = sep /\ \A n \in 1..(m - 1) : s[n] # sep
         IN  <<SubSeq(s, 1, k - 1)>> \o SplitOn(SubSeq(s, k + 1, Len(s)), sep)

ExportLines == SplitOn(csvContent, "\n")

IsQuoted(cell) == Len(cell) >= 2 /\ cell[1] = "\"" /\ cell[Len(cell)] = "\""

Unquoted(cell) == SubSeq(cell, 2, Len(cell) - 1)

HeaderNames ==
    <<"Row", "Status", "Action", "Business Product ID", "Pricelist ID", "Product Name",
      "MRP", "Currency", "Remark">>

\* C19: the export is the 9-column header line followed by one line per
\* validated row, in the order of the list; every field is wrapped in double
\* quotes and the first column is rowIndex + 1, so n rows give n + 1 lines.
C19_ExportLinePerRow ==
    (pc = "exported") =>
        LET vp == summary.validatedProducts
        IN  /\ Len(ExportLines) = Len(vp) + 1
            /\ LET cells == SplitOn(ExportLines[1], ",")
               IN  /\ Len(cells) = 9
                   /\ \A c \in 1..9 : cells[c] = <<"\"", HeaderNames[c], "\"">>
            /\ \A i \in 1..Len(vp) :
                  LET cells == SplitOn(ExportLines[i + 1], ",")
                  IN  /\ Len(cells) = 9
                      /\ \A c \in 1..9 : IsQuoted(cells[c])
                      /\ Unquoted(cells[1]) = NumToStr(vp[i].rowIndex + 1)
                      /\ Unquoted(cells[2]) = <<vp[i].validation.status>>
                      /\ Unquoted(cells[3]) = <<vp[i].validation.action>>
                      /\ Unquoted(cells[4]) = vp[i].business_product_id
                      /\ Unquoted(cells[5]) = vp[i].pricelist_id
                      /\ Unquoted(cells[6]) = vp[i].product_name
                      /\ Unquoted(cells[7]) = NumToStr(vp[i].product_mrp)
                      /\ Unquoted(cells[8]) = vp[i].currency
                      /\ Unquoted(cells[9]) = vp[i].validation.remark

\* two rows exported as three lines, the later-sorting business id first and
\* an error row second
C19_Witness ==
    /\ pc = "exported"
    /\ Len(summary.validatedProducts) = 2
    /\ Len(ExportLines) = 3
    /\ summary.validatedProducts[1].business_product_id = N3
    /\ summary.validatedProducts[2].business_product_id = N2
    /\ Verdict(2).status = "error"
    /\ Len(ErrorsOf(2)) = 1

-----------------------------------------------------------------------------
(* Properties of the import workflow (Spec) *)
SyncRows == syncData.validatedProducts

InLoop == syncPc = "loop"

SyncDone == syncPc = "idle" /\ syncData # NoData

AcceptedWith(row, action) ==
    row.validation.status = "accepted" /\ row.validation.action = action

\* C5: a store call of the confirmed sync is made only for a validation summary
\* that passes canSyncToDatabase, i.e. has no error rows.
C5_SyncOnlyWhenCanSync ==
    (syncCalls # <<>>) => syncData.summary.errorRows = 0

RECURSIVE ExpectedCalls(_, _)
ExpectedCalls(rows, n) ==
    IF n = 0 THEN <<>>
    ELSE LET prev == ExpectedCalls(rows, n - 1)
         IN  IF AcceptedWith(rows[n], "insert")
             THEN Append(prev, [op |-> "addProduct", rowIndex |-> n - 1])
             ELSE IF AcceptedWith(rows[n], "update")
             THEN Append(prev, [op |-> "updateProduct", rowIndex |-> n - 1])
             ELSE prev

\* C6: the confirmed sync calls addProduct exactly for the accepted insert rows
\* and updateProduct exactly for the accepted update rows, in row order, makes no
\* call for any other row, and never calls deleteProduct.
C6_CallsOnlyForAccepted ==
    /\ InLoop => syncCalls = ExpectedCalls(SyncRows, syncIdx - 1)
    /\ SyncDone => syncCalls = ExpectedCalls(SyncRows, Len(SyncRows))
    /\ \A c \in 1..Len(syncCalls) : syncCalls[c].op \in {"addProduct", "updateProduct"}

C6_Witness ==
    /\ SyncDone
    /\ \E c, d \in 1..Len(syncCalls) :
          syncCalls[c].op = "addProduct" /\ syncCalls[d].op = "updateProduct"

RowApplied(row) ==
    \E k \in 1..Len(products) :
        /\ products[k].business_product_id = row.business_product_id
        /\ products[k].pricelist_id = row.pricelist_id
        /\ products[k].product_name = row.product_name
        /\ products[k].product_mrp = row.product_mrp
        /\ products[k].currency = row.currency

\* C7: once a confirmed sync has completed, every accepted update row has its
\* field values on the catalog record with the same business product identifier,
\* and every accepted insert row is in the catalog.
C7_AcceptedRowsApplied ==
    SyncDone =>
        \A i \in 1..Len(SyncRows) :
            (AcceptedWith(SyncRows[i], "update") \/ AcceptedWith(SyncRows[i], "insert"))
                => RowApplied(SyncRows[i])

CalledFor(i) == \E c \in 1..Len(syncCalls) : syncCalls[c].rowIndex = i - 1

\* C17: a failed store call does not abort the confirmed sync: every accepted
\* insert or update row after the failing row is still submitted to the store,
\* and the products added by earlier calls stay in the catalog.
C17_FailureDoesNotAbort ==
    /\ SyncDone =>
          \A f \in syncFailed :
              \A i \in 1..Len(SyncRows) :
                  (/\ i - 1 > f
                   /\ (AcceptedWith(SyncRows[i], "insert") \/ AcceptedWith(SyncRows[i], "update")))
                  => CalledFor(i)
    /\ (InLoop \/ SyncDone) =>
          \A c \in 1..Len(syncCalls) :
              syncCalls[c].op = "addProduct" => RowApplied(SyncRows[syncCalls[c].rowIndex + 1])

\* the call for the first row failed, its product is in the catalog and the
\* second row was still submitted
C17_Witness ==
    /\ SyncDone
    /\ 0 \in syncFailed
    /\ error # NoError
    /\ Len(syncCalls) = 2
    /\ syncCalls[1].op = "addProduct"
    /\ RowApplied(SyncRows[1])
    /\ syncCalls[2].rowIndex = 1

\* C18: choosing and confirming a disposition for the missing products leaves
\* the catalog as it was: every product the catalog started with is still there,
\* at its position, with its status, also while and after a confirmed sync runs.
C18_DispositionLeavesCatalog ==
    /\ Len(products) >= Len(MockProducts)
    /\ \A k \in 1..Len(MockProducts) :
          /\ products[k].id = MockProducts[k].id
          /\ products[k].business_product_id = MockProducts[k].business_product_id
          /\ products[k].product_status = MockProducts[k].product_status

\* 'delete' was chosen and confirmed for a non-empty list of missing products,
\* and a confirmed sync has since made a store call
C18_Witness ==
    /\ MissingProductsDialogMounted
    /\ selectedAction = "delete"
    /\ confirmThrew
    /\ Len(currentValidationData.missingProducts) > 0
    /\ InLoop
    /\ syncCalls # <<>>

-----------------------------------------------------------------------------
(* Properties of the upload refusals, checked under SpecU *)

HasColumn(field) == ColumnOf(fileText.headers, field) # 0

\* the file has a header line only, or lacks the column of the business id or
\* of the name
StructurallyInvalid ==
    \/ \A i \in 1..Len(fileText.lines) : IsBlankLine(fileText.lines[i])
    \/ ~HasColumn("business_product_id")
    \/ ~HasColumn("product_name")

\* C21: an upload with fewer than two non-blank lines, or without a required
\* column, ends in an error toast and leaves no partial result: no file record
\* is added and no validation summary is computed for it.
C21_InvalidUploadRefused ==
    (pc # "text" /\ fileText.extension \in AllowedTypes /\ StructurallyInvalid) =>
        /\ uploadToast \in {"import.emptyFile", "import.noValidData"}
        /\ importedFiles = InitialFiles
        /\ importData = <<>>
        /\ summary = NoSummary
        /\ pc = "refused"

\* a file with data lines but without the name column has been refused
C21_Witness ==
    /\ pc = "refused"
    /\ fileText.headers = NoNameHeaders
    /\ \E i \in 1..Len(fileText.lines) : Len(fileText.lines[i]) >= Len(NoNameHeaders)
    /\ uploadToast = "import.noValidData"

-----------------------------------------------------------------------------
(* Properties of the file table, checked under SpecF *)

Restorable == {k \in 1..Len(importedFiles) : importedFiles[k].canRestore}

UploadedFileIdx == 1..Uploaded

\* C25: in every reachable state at most one imported file can be restored,
\* also when the completions of several files interleave.
C25_AtMostOneRestorable == Cardinality(Restorable) <= 1

\* an uploaded file and the initial file 3 have both been completed, so two
\* completions have run one after the other
C25_Witness ==
    /\ \E k \in UploadedFileIdx : importedFiles[k].updateStatus = "completed"
    /\ FileById(<<"3">>).updateStatus = "completed"
    /\ Cardinality(Restorable) = 1

\* C28: a file is marked updated only if it is validated and its validation
\* summary has no error rows.
C28_UpdatedOnlyWithoutErrors ==
    \A k \in 1..Len(importedFiles) :
        (importedFiles[k].updateStatus = "completed"
            /\ importedFiles[k].validationSummary # NoSummary)
        => /\ importedFiles[k].validationStatus = "completed"
           /\ importedFiles[k].validationSummary.errorRows = 0

-----------------------------------------------------------------------------
(* Properties of the offline queue and the cache, checked under SpecS *)

\* a store call that found the provider offline
OfflineCallStep == calls' = calls + 1 /\ closure.isOffline

\* C24: every mutation made while offline appends exactly one action to the
\* queue, behind the actions already queued, and the persisted queue equals the
\* queue in memory.
C24_OfflineCallAppends ==
    [][OfflineCallStep =>
          /\ Len(offlineActions') = Len(offlineActions) + 1
          /\ SubSeq(offlineActions', 1, Len(offlineActions)) = offlineActions
          /\ persistedActions' = offlineActions']_vars

\* C26: after any sequence of store calls the product list last written to the
\* cache equals the list in memory.
C26_CacheEqualsMemory == calls > 0 => cachedProducts = products

\* C27: when the 'online' event fires the queue of offline actions is
\* processed and is empty afterwards, in memory and in storage.
C27_OnlineEmptiesQueue ==
    [][(isOffline /\ ~isOffline') =>
          (offlineActions' = <<>> /\ persistedActions' = <<>>)]_vars

====
